---- MODULE Spec2Model ----
(***************************************************************************)
(* A model of mysql-sniffer (src/mysql-sniffer.go): the MySQL frame        *)
(* carver, the query canonicalizer (scanToken, cleanupQuery), the key      *)
(* format compiler (parseFormat) and the per-flow stream state machine     *)
(* (handlePacket, processPacket) driven by the capture loop of main.       *)
(*                                                                         *)
(* Byte strings ([]byte and ASCII strings) are sequences of byte values;   *)
(* a nil slice and an empty slice are both the empty sequence <<>>.        *)
(***************************************************************************)
EXTENDS Integers, Sequences, FiniteSets

\* ---------------------------------------------------------------- constants

\* Token classes, src/mysql-sniffer.go:35-39.
TOKEN_WORD == 0
TOKEN_QUOTE == 1
TOKEN_NUMBER == 2
TOKEN_WHITESPACE == 3
TOKEN_OTHER == 4

\* MySQL packet types, src/mysql-sniffer.go:53.
COM_QUERY == 3

\* Format item tags, src/mysql-sniffer.go:56-60.  F_NONE = iota is the 14th
\* constant of the const block, so the tags are 13..17.
F_NONE == 13
F_QUERY == 14
F_ROUTE == 15
F_SOURCE == 16
F_SOURCEIP == 17

\* ------------------------------------------------------------ byte strings

\* s[i:] of Go for the 1-based position i (the bytes s[i], s[i+1], ...).
From(s, i) == SubSeq(s, i, Len(s))

\* strings.Index(s, string(b)) as a 1-based position, 0 when b is absent.
RECURSIVE IndexByte(_, _, _)
IndexByte(s, b, i) ==
  IF i > Len(s) THEN 0
  ELSE IF s[i] = b THEN i
  ELSE IndexByte(s, b, i + 1)

\* strings.Contains(s, string(b)).
Contains(s, b) == IndexByte(s, b, 1) # 0

\* strings.SplitN(s, string(sep), n) for n >= 1: at most n parts, the last one
\* the unsplit remainder.
RECURSIVE SplitN(_, _, _)
SplitN(s, sep, n) ==
  LET i == IndexByte(s, sep, 1) IN
  IF n <= 1 \/ i = 0 THEN <<s>>
  ELSE <<SubSeq(s, 1, i - 1)>> \o SplitN(From(s, i + 1), sep, n - 1)

\* strings.Join(parts, "").
RECURSIVE Join(_)
Join(parts) ==
  IF parts = <<>> THEN <<>> ELSE Head(parts) \o Join(Tail(parts))

\* strings.Replace(s, old, "", -1) for a non-empty old: every non-overlapping
\* occurrence of old, scanning left to right, is removed.
RECURSIVE RemoveAll(_, _)
RemoveAll(s, old) ==
  IF Len(s) < Len(old) THEN s
  ELSE IF SubSeq(s, 1, Len(old)) = old THEN RemoveAll(From(s, Len(old) + 1), old)
  ELSE <<Head(s)>> \o RemoveAll(Tail(s), old)

\* The ASCII white space strings.TrimSpace removes.
IsTrimSpace(b) == b = 32 \/ (b >= 9 /\ b <= 13)

\* strings.TrimSpace(s).
RECURSIVE TrimSpace(_)
TrimSpace(s) ==
  IF s = <<>> THEN s
  ELSE IF IsTrimSpace(s[1]) THEN TrimSpace(Tail(s))
  ELSE IF IsTrimSpace(s[Len(s)]) THEN TrimSpace(SubSeq(s, 1, Len(s) - 1))
  ELSE s

\* strings.ToLower on one ASCII byte.
ToLower(b) == IF b >= 65 /\ b <= 90 THEN b + 32 ELSE b

\* The decimal digits of n >= 0, as fmt.Sprintf("%d", n) prints them.
RECURSIVE Decimal(_)
Decimal(n) ==
  IF n < 10 THEN <<48 + n>> ELSE Decimal(n \div 10) \o <<48 + (n % 10)>>

\* ------------------------------------------------------------- carvePacket

\* carvePacket with the bug of reading the length field big-endian.
carvePacket_BigEndian(buf) ==
  LET datalen == Len(buf) IN
  IF datalen < 5 THEN <<-1, <<>>, buf>>
  ELSE
    LET size == buf[3] + buf[2] * 256 + buf[1] * 65536 IN
    IF size = 0 \/ datalen < size + 4 THEN <<-1, <<>>, buf>>
    ELSE
      <<buf[5], SubSeq(buf, 6, size + 4),
        IF size + 4 >= datalen THEN <<>> ELSE From(buf, size + 5)>>

\* carvePacket with the bug of not testing for a length field of 0.
carvePacket_NoZeroTest(buf) ==
  LET datalen == Len(buf) IN
  IF datalen < 5 THEN <<-1, <<>>, buf>>
  ELSE
    LET size == buf[1] + buf[2] * 256 + buf[3] * 65536 IN
    IF datalen < size + 4 THEN <<-1, <<>>, buf>>
    ELSE
      <<buf[5], SubSeq(buf, 6, size + 4),
        IF size + 4 >= datalen THEN <<>> ELSE From(buf, size + 5)>>

\* carvePacket(buf): the triple <<ptype, data, buf'>> of the returned packet
\* type (-1: no full packet), the returned payload and the buffer left behind.
carvePacket(buf) ==
  LET datalen == Len(buf) IN
  IF datalen < 5 THEN <<-1, <<>>, buf>>
  ELSE
    LET size == buf[1] + buf[2] * 256 + buf[3] * 65536 IN
    IF size = 0 \/ datalen < size + 4 THEN <<-1, <<>>, buf>>
    ELSE
      LET end == size + 4
          ptype == buf[5]
          data == SubSeq(buf, 6, size + 4)
      IN <<ptype, data, IF end >= datalen THEN <<>> ELSE From(buf, end + 1)>>

\* --------------------------------------------------------------- scanToken

\* The quote loop of scanToken: i is the 1-based position of the byte looked
\* at (Go's i + 1); the value is the token length.
RECURSIVE scanQuote(_, _, _, _)
scanQuote(query, started_with, escaped, i) ==
  IF i > Len(query) THEN Len(query)
  ELSE IF query[i] = started_with THEN
    IF escaped THEN scanQuote(query, started_with, FALSE, i + 1) ELSE i
  ELSE IF query[i] = 92 THEN scanQuote(query, started_with, TRUE, i + 1)
  ELSE scanQuote(query, started_with, FALSE, i + 1)

\* Whether byte b continues a token of class t (the inner switch of the
\* number, whitespace and word loops).
Continues(t, b) ==
  IF t = TOKEN_NUMBER THEN b >= 48 /\ b <= 57
  ELSE IF t = TOKEN_WHITESPACE THEN b = 32 \/ (b >= 9 /\ b <= 13)
  ELSE \/ (b >= 48 /\ b <= 57)
       \/ (b >= 65 /\ b <= 90) \/ (b >= 97 /\ b <= 122)
       \/ b = 36 \/ b = 95

\* The number, whitespace and word loops: the token length.
RECURSIVE scanRun(_, _, _)
scanRun(query, t, i) ==
  IF i > Len(query) THEN Len(query)
  ELSE IF Continues(t, query[i]) THEN scanRun(query, t, i + 1)
  ELSE i - 1

\* scanToken(query) for a non-empty query: <<length, thistype>>.
scanToken(query, verbose, noclean) ==
  LET b == query[1] IN
  IF verbose /\ noclean THEN <<Len(query), TOKEN_OTHER>>
  ELSE IF b = 39 \/ b = 34 THEN <<scanQuote(query, b, FALSE, 2), TOKEN_QUOTE>>
  ELSE IF b >= 48 /\ b <= 57 THEN <<scanRun(query, TOKEN_NUMBER, 2), TOKEN_NUMBER>>
  ELSE IF b = 32 \/ (b >= 9 /\ b <= 13)
    THEN <<scanRun(query, TOKEN_WHITESPACE, 2), TOKEN_WHITESPACE>>
  ELSE IF (b >= 65 /\ b <= 90) \/ (b >= 97 /\ b <= 122)
    THEN <<scanRun(query, TOKEN_WORD, 2), TOKEN_WORD>>
  ELSE <<1, TOKEN_OTHER>>

\* ------------------------------------------------------------ cleanupQuery

\* The token loop of cleanupQuery: the list qspace built from query.
RECURSIVE Tokens(_, _, _)
Tokens(query, verbose, noclean) ==
  IF query = <<>> THEN <<>>
  ELSE
    LET tok == scanToken(query, verbose, noclean)
        length == tok[1]
        toktype == tok[2]
        out == IF toktype = TOKEN_WORD \/ toktype = TOKEN_OTHER
                 THEN SubSeq(query, 1, length)
               ELSE IF toktype = TOKEN_NUMBER \/ toktype = TOKEN_QUOTE THEN <<63>>
               ELSE <<32>>
    IN <<out>> \o Tokens(From(query, length + 1), verbose, noclean)

\* The route comment rewrite of cleanupQuery on the joined tokens.
StripRouteHost(tmp) ==
  LET parts == SplitN(tmp, 32, 5) IN
  IF /\ Len(parts) >= 5
     /\ parts[2] = <<47, 42>>
     /\ parts[4] = <<42, 47>>
     /\ Contains(parts[3], 58)
  THEN parts[1] \o <<32, 47, 42, 32>> \o SplitN(parts[3], 58, 2)[2]
       \o <<32, 42, 47, 32>> \o parts[5]
  ELSE tmp

\* cleanupQuery(query).
cleanupQuery(query, verbose, noclean) ==
  RemoveAll(StripRouteHost(Join(Tokens(query, verbose, noclean))), <<63, 44, 32>>)

\* ------------------------------------------------------------- parseFormat

\* The two kinds of item of the compiled format: a literal string or an int tag.
Lit(str) == [kind |-> "string", val |-> str]
Tag(t) == [kind |-> "int", val |-> t]

\* The tag chosen by the switch on the lower-cased byte after a '#'
\* (s, i, r, q), F_NONE for any other byte.
SpecialTag(char) ==
  LET c == ToLower(char) IN
  IF c = 115 THEN F_SOURCE
  ELSE IF c = 105 THEN F_SOURCEIP
  ELSE IF c = 114 THEN F_ROUTE
  ELSE IF c = 113 THEN F_QUERY
  ELSE F_NONE

\* The loop of parseFormat over the bytes of str and the append after it.
RECURSIVE parseLoop(_, _, _, _)
parseLoop(str, is_special, curstr, fmt) ==
  IF str = <<>> THEN
    IF curstr # <<>> THEN Append(fmt, Lit(curstr)) ELSE fmt
  ELSE
    LET char == Head(str)
        rest == Tail(str)
    IN
    IF char = 35 THEN
      IF is_special THEN parseLoop(rest, FALSE, Append(curstr, char), fmt)
      ELSE parseLoop(rest, TRUE, curstr, fmt)
    ELSE
      LET do_append == IF is_special THEN SpecialTag(char) ELSE F_NONE
          cur == IF ~is_special THEN Append(curstr, char)
                 ELSE IF do_append = F_NONE THEN curstr \o <<35, char>>
                 ELSE curstr
      IN
      IF do_append # F_NONE THEN
        IF cur # <<>> THEN parseLoop(rest, FALSE, <<>>, fmt \o <<Lit(cur), Tag(do_append)>>)
        ELSE parseLoop(rest, FALSE, <<>>, Append(fmt, Tag(do_append)))
      ELSE parseLoop(rest, FALSE, cur, fmt)

\* parseFormat(formatstr) appending to the global format fmt; an empty format
\* string is replaced by "#b:#k".
parseFormat(formatstr, fmt) ==
  LET trimmed == TrimSpace(formatstr) IN
  parseLoop(IF trimmed = <<>> THEN <<35, 98, 58, 35, 107>> ELSE trimmed,
            FALSE, <<>>, fmt)

\* ------------------------------------------------------- key of a request

\* RouteText with the bug of splitting the payload into four parts only.
RouteText_SplitsFour(pdata, verbose, noclean) ==
  LET parts == SplitN(pdata, 32, 4) IN
  IF Len(parts) >= 4 /\ parts[2] = <<47, 42>> /\ parts[4] = <<42, 47>> THEN
    IF Contains(parts[3], 58) THEN SplitN(parts[3], 58, 2)[2] ELSE parts[3]
  ELSE <<40, 117, 110, 107, 110, 111, 119, 110, 41, 32>>
       \o cleanupQuery(pdata, verbose, noclean)

\* The F_ROUTE case of processPacket.
RouteText(pdata, verbose, noclean) ==
  LET parts == SplitN(pdata, 32, 5) IN
  IF Len(parts) >= 4 /\ parts[2] = <<47, 42>> /\ parts[4] = <<42, 47>> THEN
    IF Contains(parts[3], 58) THEN SplitN(parts[3], 58, 2)[2] ELSE parts[3]
  ELSE <<40, 117, 110, 107, 110, 111, 119, 110, 41, 32>>   \* "(unknown) "
       \o cleanupQuery(pdata, verbose, noclean)

\* ItemText with the bug of canonicalizing the query whatever -u says.
ItemText_IgnoresDirty(item, src, srcip, pdata, cfg) ==
  IF item.kind = "string" THEN item.val
  ELSE IF item.val = F_QUERY THEN cleanupQuery(pdata, cfg.verbose, cfg.noclean)
  ELSE IF item.val = F_ROUTE THEN RouteText(pdata, cfg.verbose, cfg.noclean)
  ELSE IF item.val = F_SOURCE THEN src
  ELSE srcip

\* The text one item of the format adds to the key.  The tags parseFormat
\* emits are the four below (F_NONE and unknown tags abort the program).
ItemText(item, src, srcip, pdata, cfg) ==
  IF item.kind = "string" THEN item.val
  ELSE IF item.val = F_QUERY THEN
    IF cfg.dirty THEN pdata ELSE cleanupQuery(pdata, cfg.verbose, cfg.noclean)
  ELSE IF item.val = F_ROUTE THEN RouteText(pdata, cfg.verbose, cfg.noclean)
  ELSE IF item.val = F_SOURCE THEN src
  ELSE srcip

\* The loop over format in processPacket: the aggregation key.
RECURSIVE KeyText(_, _, _, _, _)
KeyText(fmt, src, srcip, pdata, cfg) ==
  IF fmt = <<>> THEN <<>>
  ELSE ItemText(Head(fmt), src, srcip, pdata, cfg)
       \o KeyText(Tail(fmt), src, srcip, pdata, cfg)

\* ------------------------------------------------------------------- state

VARIABLES
  pc,          \* where main is: "flags" (before flag.Parse), "loop" (capturing),
               \* or, for a single function call, "call" / "return"
  verbose,     \* -v
  noclean,     \* -n
  dirty,       \* -u
  format,      \* the compiled format: a sequence of Lit and Tag items
  port,        \* -P
  chmap,       \* src string -> source record
  heap,        \* the queryData objects allocated so far, by address 1..Len(heap)
  qbuf,        \* key text -> address of its queryData
  querycount,
  times,       \* the global reservoir
  stats,       \* packets rcvd / rcvd_sync, desyncs, streams
  now,         \* the clock read by time.Now and UnixNow
  last,        \* main's local: the time of the last status report
  ev,          \* history: the packet the last loop iteration handled
  pending,     \* history: per source, the requests counted since its last
               \* response packet, each as [at, text]
  arg,         \* the argument of the single function call
  res          \* its result

vars == <<pc, verbose, noclean, dirty, format, port, chmap, heap, qbuf,
          querycount, times, stats, now, last, ev, pending, arg, res>>

\* ------------------------------------------------------------------ bounds

\* The reservoir size; 10000 in the source (src/mysql-sniffer.go:42), kept
\* small here.
TIME_BUCKETS == 2
\* Packets with a payload the capture loop handles in one run.
MaxPackets == 3
\* The last clock value.
MaxTime == 2
\* The -t flag (seconds between status reports; 10 by default).
Period == 1

\* The request count modulus of the report trigger, src/mysql-sniffer.go:166.
REPORT_EVERY == 1000
\* The default of the -P flag, src/mysql-sniffer.go:118.
MYSQL_PORT == 3306

\* ----------------------------------------------------------------- sources

Buckets == 0 .. (TIME_BUCKETS - 1)
NoTimes == [i \in Buckets |-> 0]

\* fmt.Sprintf("%d.%d.%d.%d:%d", ip[0], ip[1], ip[2], ip[3], p).
SourceString(ip, p) ==
  Decimal(ip[1]) \o <<46>> \o Decimal(ip[2]) \o <<46>> \o Decimal(ip[3])
  \o <<46>> \o Decimal(ip[4]) \o <<58>> \o Decimal(p)

\* Direction with the bug of keying a response by the end it came from.
Direction_KeysResponseBySender(pkt, mysqlport) ==
  IF pkt.srcPort = mysqlport THEN
    [dir |-> "response", request |-> FALSE, src |-> SourceString(pkt.srcIP, pkt.srcPort)]
  ELSE IF pkt.dstPort = mysqlport THEN
    [dir |-> "request", request |-> TRUE, src |-> SourceString(pkt.srcIP, pkt.srcPort)]
  ELSE [dir |-> "none", request |-> FALSE, src |-> <<>>]

\* The direction test of handlePacket: the source string the packet belongs
\* to and whether it is a request.  dir "none" is the log.Fatalf branch.
Direction(pkt, mysqlport) ==
  IF pkt.srcPort = mysqlport THEN
    [dir |-> "response", request |-> FALSE, src |-> SourceString(pkt.dstIP, pkt.dstPort)]
  ELSE IF pkt.dstPort = mysqlport THEN
    [dir |-> "request", request |-> TRUE, src |-> SourceString(pkt.srcIP, pkt.srcPort)]
  ELSE [dir |-> "none", request |-> FALSE, src |-> <<>>]

\* &source{src: src, srcip: srcip, synced: false}.  reqSent is <<>> (nil) or
\* <<t>>; qdata is 0 (nil) or an address of heap.
NewSource(src) ==
  [src |-> src,
   srcip |-> SubSeq(src, 1, IndexByte(src, 58, 1) - 1),
   synced |-> FALSE,
   reqbuffer |-> <<>>,
   resbuffer |-> <<>>,
   reqSent |-> <<>>,
   reqTimes |-> NoTimes,
   qbytes |-> 0,
   qdata |-> 0,
   qtext |-> <<>>]

\* &queryData{}.
NewQueryData == [count |-> 0, bytes |-> 0, times |-> NoTimes]

\* ----------------------------------------------------------- processPacket

\* OnResponse with the bug of not clearing reqSent once the latency is recorded.
OnResponse_KeepsReqSent(rs, pdata, tnow, randn, g) ==
  LET plen == Len(pdata) IN
  IF rs.reqSent = <<>> THEN
    [rs |-> rs,
     g |-> IF rs.qdata # 0
             THEN [g EXCEPT !.heap[rs.qdata].bytes = @ + plen]
             ELSE g,
     randn |-> -1]
  ELSE
    LET reqtime == tnow - rs.reqSent[1]
        g1 == [g EXCEPT !.times[randn] = reqtime]
    IN
    [rs |-> [rs EXCEPT !.reqTimes[randn] = reqtime],
     g |-> [g1 EXCEPT !.heap[rs.qdata].times[randn] = reqtime,
                      !.heap[rs.qdata].bytes = @ + plen],
     randn |-> randn]

\* OnResponse with the bug of dropping the bytes of a response that follows the
\* first one.
OnResponse_DropsLateBytes(rs, pdata, tnow, randn, g) ==
  LET plen == Len(pdata) IN
  IF rs.reqSent = <<>> THEN [rs |-> rs, g |-> g, randn |-> -1]
  ELSE
    LET reqtime == tnow - rs.reqSent[1]
        g1 == [g EXCEPT !.times[randn] = reqtime]
    IN
    [rs |-> [rs EXCEPT !.reqTimes[randn] = reqtime, !.reqSent = <<>>],
     g |-> IF rs.qdata # 0
             THEN [g1 EXCEPT !.heap[rs.qdata].times[randn] = reqtime,
                             !.heap[rs.qdata].bytes = @ + plen]
             ELSE g1,
     randn |-> randn]

\* The response branch of processPacket (after the gate): g holds the globals
\* heap, qbuf, times, querycount, stats.
OnResponse(rs, pdata, tnow, randn, g) ==
  LET plen == Len(pdata) IN
  IF rs.reqSent = <<>> THEN
    [rs |-> rs,
     g |-> IF rs.qdata # 0
             THEN [g EXCEPT !.heap[rs.qdata].bytes = @ + plen]
             ELSE g,
     randn |-> -1]
  ELSE
    LET reqtime == tnow - rs.reqSent[1]
        g1 == [g EXCEPT !.times[randn] = reqtime]
    IN
    [rs |-> [rs EXCEPT !.reqTimes[randn] = reqtime, !.reqSent = <<>>],
     g |-> IF rs.qdata # 0
             THEN [g1 EXCEPT !.heap[rs.qdata].times[randn] = reqtime,
                             !.heap[rs.qdata].bytes = @ + plen]
             ELSE g1,
     randn |-> randn]

\* Count with the bug of the source keeping the queryData it had.
Count_KeepsEntry(rs, plen, tnow, g, text) ==
  LET ok == text \in DOMAIN g.qbuf
      addr == IF ok THEN g.qbuf[text] ELSE Len(g.heap) + 1
      heap0 == IF ok THEN g.heap ELSE Append(g.heap, NewQueryData)
  IN
  [rs |-> [rs EXCEPT !.reqSent = <<tnow>>, !.qtext = text, !.qbytes = plen],
   g |-> [g EXCEPT !.querycount = @ + 1,
                   !.qbuf = IF ok THEN @
                            ELSE [k \in DOMAIN @ \cup {text} |->
                                    IF k = text THEN addr ELSE @[k]],
                   !.heap = [heap0 EXCEPT ![addr].count = @ + 1,
                                          ![addr].bytes = @ + plen]],
   randn |-> -1]

\* Count with the bug of not counting the request that makes a queryData.
Count_NewEntryUncounted(rs, plen, tnow, g, text) ==
  LET ok == text \in DOMAIN g.qbuf
      addr == IF ok THEN g.qbuf[text] ELSE Len(g.heap) + 1
      heap0 == IF ok THEN g.heap ELSE Append(g.heap, NewQueryData)
  IN
  [rs |-> [rs EXCEPT !.reqSent = <<tnow>>, !.qtext = text, !.qdata = addr,
                     !.qbytes = plen],
   g |-> [g EXCEPT !.querycount = @ + 1,
                   !.qbuf = IF ok THEN @
                            ELSE [k \in DOMAIN @ \cup {text} |->
                                    IF k = text THEN addr ELSE @[k]],
                   !.heap = [heap0 EXCEPT ![addr].count = IF ok THEN @ + 1 ELSE @,
                                          ![addr].bytes = @ + plen]],
   randn |-> -1]

\* The end of the request branch: the queryData of key text is looked up or
\* made, counted, and remembered by the source.
Count(rs, plen, tnow, g, text) ==
  LET ok == text \in DOMAIN g.qbuf
      addr == IF ok THEN g.qbuf[text] ELSE Len(g.heap) + 1
      heap0 == IF ok THEN g.heap ELSE Append(g.heap, NewQueryData)
  IN
  [rs |-> [rs EXCEPT !.reqSent = <<tnow>>, !.qtext = text, !.qdata = addr,
                     !.qbytes = plen],
   g |-> [g EXCEPT !.querycount = @ + 1,
                   !.qbuf = IF ok THEN @
                            ELSE [k \in DOMAIN @ \cup {text} |->
                                    IF k = text THEN addr ELSE @[k]],
                   !.heap = [heap0 EXCEPT ![addr].count = @ + 1,
                                          ![addr].bytes = @ + plen]],
   randn |-> -1]

\* OnRequest with the bug of keeping the time of an earlier unanswered request.
OnRequest_KeepsFirstTime(rs, pdata, tnow, g, cfg) ==
  Count(rs, Len(pdata), IF rs.reqSent = <<>> THEN tnow ELSE rs.reqSent[1], g,
        KeyText(cfg.format, rs.src, rs.srcip, pdata, cfg))

\* The request branch of processPacket (after the gate, a full frame carved).
OnRequest(rs, pdata, tnow, g, cfg) ==
  Count(rs, Len(pdata), tnow, g,
        KeyText(cfg.format, rs.src, rs.srcip, pdata, cfg))

\* Intake with the bug of a desync on a request that follows an unanswered one.
Intake_DesyncOnUnanswered(rs, request, data, g) ==
  LET desync == request /\ (rs.resbuffer # <<>> \/ rs.reqSent # <<>>)
      carved == carvePacket(data)
  IN
  [rs |-> IF request
            THEN [rs EXCEPT !.resbuffer = IF desync THEN <<>> ELSE @,
                            !.synced = IF desync THEN FALSE ELSE @,
                            !.reqbuffer = carved[3]]
            ELSE [rs EXCEPT !.resbuffer = <<>>],
   ptype |-> IF request THEN carved[1] ELSE 0,
   pdata |-> IF request THEN carved[2] ELSE data,
   g |-> [g EXCEPT !.stats.rcvd = @ + 1,
                   !.stats.rcvd_sync = IF rs.synced THEN @ + 1 ELSE @,
                   !.stats.desyncs = IF desync THEN @ + 1 ELSE @]]

\* Intake with the bug of keeping the bytes of a response in resbuffer.
Intake_BuffersResponse(rs, request, data, g) ==
  LET desync == request /\ rs.resbuffer # <<>>
      carved == carvePacket(data)
  IN
  [rs |-> IF request
            THEN [rs EXCEPT !.resbuffer = IF desync THEN <<>> ELSE @,
                            !.synced = IF desync THEN FALSE ELSE @,
                            !.reqbuffer = carved[3]]
            ELSE [rs EXCEPT !.resbuffer = data],
   ptype |-> IF request THEN carved[1] ELSE 0,
   pdata |-> IF request THEN carved[2] ELSE data,
   g |-> [g EXCEPT !.stats.rcvd = @ + 1,
                   !.stats.rcvd_sync = IF rs.synced THEN @ + 1 ELSE @,
                   !.stats.desyncs = IF desync THEN @ + 1 ELSE @]]

\* What processPacket does with the packet before the gate: the counters, the
\* desync test, the buffers and the carve.
Intake(rs, request, data, g) ==
  LET desync == request /\ rs.resbuffer # <<>>
      carved == carvePacket(data)
  IN
  [rs |-> IF request
            THEN [rs EXCEPT !.resbuffer = IF desync THEN <<>> ELSE @,
                            !.synced = IF desync THEN FALSE ELSE @,
                            !.reqbuffer = carved[3]]
            ELSE [rs EXCEPT !.resbuffer = <<>>],
   ptype |-> IF request THEN carved[1] ELSE 0,
   pdata |-> IF request THEN carved[2] ELSE data,
   g |-> [g EXCEPT !.stats.rcvd = @ + 1,
                   !.stats.rcvd_sync = IF rs.synced THEN @ + 1 ELSE @,
                   !.stats.desyncs = IF desync THEN @ + 1 ELSE @]]

\* The gate with the bug of syncing on any request, whatever was carved.
GateOpen_AnyRequest(synced, request, ptype) == synced \/ request

\* Whether the synchronization gate lets the packet through.
GateOpen(synced, request, ptype) == synced \/ (request /\ ptype = COM_QUERY)

\* Gated with the bug of not emptying the buffers of a source that stays
\* unsynced.
Gated_KeepsBuffers(in, request, tnow, randn, cfg) ==
  IF ~GateOpen(in.rs.synced, request, in.ptype) THEN
    [rs |-> in.rs, g |-> in.g, randn |-> -1]
  ELSE IF in.ptype = -1 THEN
    [rs |-> [in.rs EXCEPT !.synced = TRUE], g |-> in.g, randn |-> -1]
  ELSE IF ~request THEN
    OnResponse([in.rs EXCEPT !.synced = TRUE], in.pdata, tnow, randn, in.g)
  ELSE OnRequest([in.rs EXCEPT !.synced = TRUE], in.pdata, tnow, in.g, cfg)

\* processPacket from the gate on, for the outcome in of Intake.
Gated(in, request, tnow, randn, cfg) ==
  IF ~GateOpen(in.rs.synced, request, in.ptype) THEN
    [rs |-> [in.rs EXCEPT !.reqbuffer = <<>>, !.resbuffer = <<>>],
     g |-> in.g, randn |-> -1]
  ELSE IF in.ptype = -1 THEN
    [rs |-> [in.rs EXCEPT !.synced = TRUE], g |-> in.g, randn |-> -1]
  ELSE IF ~request THEN
    OnResponse([in.rs EXCEPT !.synced = TRUE], in.pdata, tnow, randn, in.g)
  ELSE OnRequest([in.rs EXCEPT !.synced = TRUE], in.pdata, tnow, in.g, cfg)

\* processPacket(rs, request, data): the new source record and globals, and
\* the reservoir slot drawn (-1 when rand.Intn is not called).
processPacket(rs, request, data, tnow, randn, g, cfg) ==
  Gated(Intake(rs, request, data, g), request, tnow, randn, cfg)

\* ------------------------------------------------------------ environment

\* The command lines main is started with: the defaults (-f "#s:#q"), and
\* -v -n -u -f "#r".
Flags ==
  { [verbose |-> FALSE, noclean |-> FALSE, dirty |-> FALSE,
     formatstr |-> <<35, 115, 58, 35, 113>>],
    [verbose |-> TRUE, noclean |-> TRUE, dirty |-> TRUE,
     formatstr |-> <<35, 114>>] }

\* The endpoints seen on the wire: the server and two clients.
Server == [ip |-> <<10, 0, 0, 1>>, port |-> MYSQL_PORT]
Clients ==
  { [ip |-> <<10, 0, 0, 5>>, port |-> 44321],
    [ip |-> <<10, 0, 0, 6>>, port |-> 80] }

\* TCP payloads sent to the server: MySQL frames [size:3][seq][cmd][payload]
\* and fragments of them.
RequestPayloads ==
  { <<>>,                                   \* a bare ACK: no payload
    <<2, 0, 0, 0, 3, 49>>,                  \* COM_QUERY "1"
    <<2, 0, 0, 0, 3, 97, 1, 0, 0, 1, 14>>,  \* COM_QUERY "a", then a COM_PING
    <<1, 0, 0, 0, 14>>,                     \* COM_PING
    <<0, 0, 0, 0, 3>>,                      \* a frame of size 0
    <<7, 0, 0>> }                           \* less than a frame header

\* TCP payloads sent by the server.
ResponsePayloads ==
  { <<>>,                                   \* a bare ACK: no payload
    <<2, 0, 0, 1, 3, 49>>,                  \* bytes that read as a COM_QUERY frame
    <<0>> }

\* The packets the capture filter "tcp port <port>" delivers.
Packets ==
  { [srcIP |-> c.ip, srcPort |-> c.port, dstIP |-> Server.ip,
     dstPort |-> Server.port, data |-> d] : c \in Clients, d \in RequestPayloads }
  \cup
  { [srcIP |-> Server.ip, srcPort |-> Server.port, dstIP |-> c.ip,
     dstPort |-> c.port, data |-> d] : c \in Clients, d \in ResponsePayloads }

\* The history before the first packet.
NoPacket ==
  [srcIP |-> <<0, 0, 0, 0>>, srcPort |-> 0, dstIP |-> <<0, 0, 0, 0>>,
   dstPort |-> 0, data |-> <<>>]
NoEvent ==
  [n |-> 0, pkt |-> NoPacket, src |-> <<>>, request |-> FALSE, randn |-> -1,
   at |-> 0]

\* -------------------------------------------------------------------- main

\* The package-level variables before main runs.
Init ==
  /\ pc = "flags"
  /\ verbose = FALSE
  /\ noclean = FALSE
  /\ dirty = FALSE
  /\ format = <<>>
  /\ port = 0
  /\ chmap = <<>>
  /\ heap = <<>>
  /\ qbuf = <<>>
  /\ querycount = 0
  /\ times = NoTimes
  /\ stats = [rcvd |-> 0, rcvd_sync |-> 0, desyncs |-> 0, streams |-> 0]
  /\ now = 0
  /\ last = 0
  /\ ev = NoEvent
  /\ pending = <<>>
  /\ arg = <<>>
  /\ res = <<>>

\* main up to the capture loop: the flags are parsed, the format is compiled
\* and last := UnixNow().
ParseFlags ==
  /\ pc = "flags"
  /\ \E f \in Flags :
       /\ verbose' = f.verbose
       /\ noclean' = f.noclean
       /\ dirty' = f.dirty
       /\ format' = parseFormat(f.formatstr, format)
  /\ port' = MYSQL_PORT
  /\ last' = now
  /\ pc' = "loop"
  /\ UNCHANGED <<chmap, heap, qbuf, querycount, times, stats, now, ev, pending, arg, res>>

\* The globals processPacket works on, and the flags it reads.
Globals ==
  [heap |-> heap, qbuf |-> qbuf, times |-> times, querycount |-> querycount,
   stats |-> stats]
Config ==
  [verbose |-> verbose, noclean |-> noclean, dirty |-> dirty, format |-> format]

\* The lookup of handlePacket: the source record of src, made when unknown,
\* and the globals after the lookup.
Lookup(src) ==
  IF src \in DOMAIN chmap THEN [rs |-> chmap[src], g |-> Globals]
  ELSE [rs |-> NewSource(src), g |-> [Globals EXCEPT !.stats.streams = @ + 1]]

\* The outcome of handlePacket when processPacket returned out for source
\* d.src: the new chmap and globals and the history record of the packet.
Handed(pkt, tnow, d, out) ==
  [chmap |-> [k \in DOMAIN chmap \cup {d.src} |->
                IF k = d.src THEN out.rs ELSE chmap[k]],
   g |-> out.g,
   ev |-> [n |-> ev.n + 1, pkt |-> pkt, src |-> d.src, request |-> d.request,
           randn |-> out.randn, at |-> tnow]]

\* handlePacket for a packet of direction d and the looked up source found.
Dispatch(pkt, tnow, randn, d, found) ==
  Handed(pkt, tnow, d,
         processPacket(found.rs, d.request, pkt.data, tnow, randn, found.g, Config))

\* handlePacket(pkt) at clock value tnow, with randn the slot rand.Intn would
\* draw: the new chmap and globals and the history record of the packet.
handlePacket(pkt, tnow, randn) ==
  IF Len(pkt.data) <= 0 THEN
    [chmap |-> chmap, g |-> Globals,
     ev |-> [n |-> ev.n + 1, pkt |-> pkt, src |-> <<>>, request |-> FALSE,
             randn |-> -1, at |-> tnow]]
  ELSE Dispatch(pkt, tnow, randn, Direction(pkt, port),
                Lookup(Direction(pkt, port).src))

\* A TCP payload that starts with a whole MySQL frame
\* [size:u24 little-endian][seq][cmd][size-1 bytes], and that frame's command.
FrameSize(d) == d[1] + d[2] * 256 + d[3] * 65536
WholeFrame(d) == Len(d) >= 5 /\ FrameSize(d) >= 1 /\ Len(d) >= FrameSize(d) + 4
FrameCommand(d) == d[5]

\* Whether source k exists and is synced.
IsSynced(k) == k \in DOMAIN chmap /\ chmap[k].synced

\* The history of outstanding requests after a packet with outcome out: a
\* request packet holding a whole frame, on a source that is synced or syncs on
\* it, is added to its source's list; a response packet empties the list.
Outstanding(out) ==
  LET k == out.ev.src
      old == IF k \in DOMAIN pending THEN pending[k] ELSE <<>>
      d == out.ev.pkt.data
      counted == /\ out.ev.request
                 /\ WholeFrame(d)
                 /\ (IsSynced(k) \/ FrameCommand(d) = COM_QUERY)
  IN
  IF Len(d) = 0 THEN pending
  ELSE [j \in DOMAIN pending \cup {k} |->
          IF j # k THEN pending[j]
          ELSE IF counted
            THEN Append(old, [at |-> out.ev.at, text |-> out.chmap[k].qtext])
          ELSE IF out.ev.request THEN old
          ELSE <<>>]

\* The values rand.Intn(TIME_BUCKETS) may return while pkt is handled: any
\* slot when processPacket reaches the call, and no draw (one outcome) otherwise.
Slots(pkt, tnow) ==
  IF handlePacket(pkt, tnow, 0).ev.randn = -1 THEN {0} ELSE Buckets

\* ReportDue with the bug of reporting whatever the number of requests.
ReportDue_IgnoresCount(count, tnow) ==
  ~verbose /\ last < tnow - Period

\* The test of main's loop for a status report, with count requests processed
\* at clock value tnow.
ReportDue(count, tnow) ==
  ~verbose /\ count % REPORT_EVERY = 0 /\ last < tnow - Period

\* The end of a loop iteration in which handlePacket returned out at clock
\* value tnow: the globals are out's, and a status report is printed when one
\* is due (handleStatusUpdate only prints; last is set).
Iterate(out, tnow) ==
  /\ chmap' = out.chmap
  /\ heap' = out.g.heap
  /\ qbuf' = out.g.qbuf
  /\ times' = out.g.times
  /\ querycount' = out.g.querycount
  /\ stats' = out.g.stats
  /\ ev' = out.ev
  /\ pending' = Outstanding(out)
  /\ last' = IF ReportDue(out.g.querycount, tnow) THEN tnow ELSE last

\* One iteration of the capture loop of main, for at most limit packets: the
\* next packet, one of packets, arrives dt clock ticks after the previous one,
\* for a dt of ticks.
LoopStepWith(packets, limit, ticks) ==
  /\ pc = "loop"
  /\ ev.n < limit
  /\ \E pkt \in packets, dt \in ticks :
       /\ now + dt <= MaxTime
       /\ now' = now + dt
       /\ \E randn \in Slots(pkt, now + dt) :
            Iterate(handlePacket(pkt, now + dt, randn), now + dt)
  /\ UNCHANGED <<pc, verbose, noclean, dirty, format, port, arg, res>>

\* One iteration of the capture loop of main on traffic drawn from packets: the
\* next packet arrives one clock tick or none after the previous one.
LoopStepOver(packets) == LoopStepWith(packets, MaxPackets, 0 .. 1)

\* The capture loop on the traffic of Packets.
LoopStep == LoopStepOver(Packets)

Next == ParseFlags \/ LoopStep

\* ----------------------------------------------------- single function calls

\* All sequences over alphabet of length at most n.
SeqsUpTo(alphabet, n) == UNION { [1 .. k -> alphabet] : k \in 0 .. n }

\* The state in which one function is about to be called on an argument drawn
\* from inputs, under flag settings drawn from flagsets: nothing captured yet.
CallInit(inputs, flagsets) ==
  /\ pc = "call"
  /\ arg \in inputs
  /\ \E f \in flagsets :
       /\ verbose = f.verbose
       /\ noclean = f.noclean
       /\ dirty = f.dirty
  /\ format = <<>>
  /\ port = MYSQL_PORT
  /\ chmap = <<>>
  /\ heap = <<>>
  /\ qbuf = <<>>
  /\ querycount = 0
  /\ times = NoTimes
  /\ stats = [rcvd |-> 0, rcvd_sync |-> 0, desyncs |-> 0, streams |-> 0]
  /\ now = 0
  /\ last = 0
  /\ ev = NoEvent
  /\ pending = <<>>
  /\ res = <<>>

\* The call returns value.
Return(value) ==
  /\ pc = "call"
  /\ pc' = "return"
  /\ res' = value
  /\ UNCHANGED <<verbose, noclean, dirty, format, port, chmap, heap, qbuf,
                 querycount, times, stats, now, last, ev, pending, arg>>

\* The flag settings that matter to none of the functions called.
DefaultFlags == { [verbose |-> FALSE, noclean |-> FALSE, dirty |-> FALSE] }

\* ------------------------------------------------------ calls of carvePacket

\* The longest buffer carved.
MaxBuf == 7

\* Buffers over the bytes 0 .. 3: length fields 0, 1, 2, 3 and beyond the
\* buffer (256 and more), with and without bytes after the frame.
CarveInputs == SeqsUpTo(0 .. 3, MaxBuf)

CarveInit == CallInit(CarveInputs, DefaultFlags)

\* ptype, data := carvePacket(&arg); res is <<ptype, data, arg afterwards>>.
CarveCall == Return(carvePacket(arg))

SpecCarve == CarveInit /\ [][CarveCall]_vars

\* ------------------------------------------------- keys of two requests

\* The longest format string tried.
MaxFormat == 3

\* Format strings over '#', 's', 'Q', 'i', 'r', 'x' and ' '.
FormatInputs == SeqsUpTo({35, 115, 81, 105, 114, 120, 32}, MaxFormat)

\* The clients and the queries "a=1" and "a=2" of the two requests.
KeyClients ==
  { [ip |-> <<10, 0, 0, 5>>, port |-> 44321], [ip |-> <<10, 0, 0, 6>>, port |-> 80] }
KeyQueries == { <<97, 61, 49>>, <<97, 61, 50>> }

\* -f "#i #q", and twice the query "SELECT * FROM t WHERE id=42" from
\* 10.0.0.5:44321.
ExampleKeyInput ==
  [formatstr |-> <<35, 105, 32, 35, 113>>,
   c1 |-> [ip |-> <<10, 0, 0, 5>>, port |-> 44321],
   q1 |-> <<83, 69, 76, 69, 67, 84, 32, 42, 32, 70, 82, 79, 77, 32, 116, 32,
            87, 72, 69, 82, 69, 32, 105, 100, 61, 52, 50>>,
   c2 |-> [ip |-> <<10, 0, 0, 5>>, port |-> 44321],
   q2 |-> <<83, 69, 76, 69, 67, 84, 32, 42, 32, 70, 82, 79, 77, 32, 116, 32,
            87, 72, 69, 82, 69, 32, 105, 100, 61, 52, 50>>]

KeyInputs ==
  [formatstr : FormatInputs, c1 : {[ip |-> <<10, 0, 0, 5>>, port |-> 44321]},
   q1 : KeyQueries, c2 : KeyClients, q2 : KeyQueries]
  \cup {ExampleKeyInput}

\* -u with and without -v -n.
KeyFlags ==
  { [verbose |-> v, noclean |-> v, dirty |-> d] : v \in BOOLEAN, d \in BOOLEAN }

KeyInit == CallInit(KeyInputs, KeyFlags)

\* The TCP payload of a COM_QUERY request with query q.
QueryFrame(q) ==
  <<(Len(q) + 1) % 256, ((Len(q) + 1) \div 256) % 256, (Len(q) + 1) \div 65536,
    0, COM_QUERY>> \o q

\* processPacket for a COM_QUERY request q on the source rs.
RequestOn(rs, q, g, cfg) ==
  processPacket(rs, TRUE, QueryFrame(q), now, 0, g, cfg)

\* The source the second request is processed on: the first one's when it
\* comes from the same client, a new one otherwise.
SecondSource(a, first) ==
  IF a.c2 = a.c1 THEN first.rs ELSE NewSource(SourceString(a.c2.ip, a.c2.port))

SecondRequest(a, first, cfg) ==
  [first |-> first,
   second |-> RequestOn(SecondSource(a, first), a.q2, first.g, cfg)]

\* main with -f a.formatstr, then two requests: the outcome of processPacket
\* for the first and for the second.
TwoRequests(a, cfg) ==
  SecondRequest(a, RequestOn(NewSource(SourceString(a.c1.ip, a.c1.port)), a.q1,
                             Globals, cfg), cfg)

KeyCall ==
  Return(TwoRequests(arg, [Config EXCEPT !.format = parseFormat(arg.formatstr, format)]))

SpecKey == KeyInit /\ [][KeyCall]_vars

\* ------------------------------------------------- route of a request

\* The most tokens a payload is joined from.
MaxTokens == 5

\* The tokens "", "a", "/*", "*/" and "h:r:1".
RouteTokens == { <<>>, <<97>>, <<47, 42>>, <<42, 47>>, <<104, 58, 114, 58, 49>> }

\* The tokens joined by single spaces.
RECURSIVE JoinSpaced(_)
JoinSpaced(tokens) ==
  IF tokens = <<>> THEN <<>>
  ELSE IF Len(tokens) = 1 THEN tokens[1]
  ELSE tokens[1] \o <<32>> \o JoinSpaced(Tail(tokens))

\* "SELECT /* web01:user_lookup */ * FROM u WHERE id=1"
ExampleRoutePayload ==
  <<83, 69, 76, 69, 67, 84, 32, 47, 42, 32, 119, 101, 98, 48, 49, 58, 117, 115,
    101, 114, 95, 108, 111, 111, 107, 117, 112, 32, 42, 47, 32, 42, 32, 70, 82,
    79, 77, 32, 117, 32, 87, 72, 69, 82, 69, 32, 105, 100, 61, 49>>

RouteInputs ==
  { JoinSpaced(t) : t \in UNION { [1 .. n -> RouteTokens] : n \in 1 .. MaxTokens } }
  \cup {ExampleRoutePayload}

\* With and without -v -n.
RouteFlags ==
  { [verbose |-> v, noclean |-> v, dirty |-> FALSE] : v \in BOOLEAN }

RouteInit == CallInit(RouteInputs, RouteFlags)

\* main with -f "#r", then processPacket for the first packet of
\* 10.0.0.5:44321, a COM_QUERY request with payload arg.
RouteCall ==
  Return(RequestOn(NewSource(SourceString(<<10, 0, 0, 5>>, 44321)), arg, Globals,
                   [Config EXCEPT !.format = parseFormat(<<35, 114>>, format)]))

SpecRoute == RouteInit /\ [][RouteCall]_vars

\* ------------------------------------------------- queries with a literal

\* The longest run of digits and the longest text between quotes tried.
MaxLit == 3

\* s is the text between the quotes q of a string literal: bytes other than q
\* and backslash, and backslash escapes of any byte.
RECURSIVE IsQuotedText(_, _)
IsQuotedText(s, q) ==
  IF s = <<>> THEN TRUE
  ELSE IF s[1] = 92 THEN Len(s) >= 2 /\ IsQuotedText(SubSeq(s, 3, Len(s)), q)
  ELSE s[1] # q /\ IsQuotedText(Tail(s), q)

\* Runs of the digits '1' and '2'.
NumericLiterals == SeqsUpTo({49, 50}, MaxLit) \ {<<>>}

\* Quoted texts over 'a', backslash, "'" and '"', in single and double quotes.
QuotedIn(q) ==
  { <<q>> \o s \o <<q>> :
      s \in { t \in SeqsUpTo({97, 92, 39, 34}, MaxLit) : IsQuotedText(t, q) } }
StringLiterals == QuotedIn(39) \cup QuotedIn(34)

\* A query is pre, a literal and post: pre one of "", "a=" and "(", post one
\* of "", " b=1" and " b='c'".
ElideInputs ==
  [pre : { <<>>, <<97, 61>>, <<40>> },
   lit : NumericLiterals \cup StringLiterals,
   post : { <<>>, <<32, 98, 61, 49>>, <<32, 98, 61, 39, 99, 39>> }]

\* Another literal of the class of lit: "7" for a number, "'b'" for a string.
OtherLiteral(lit) ==
  IF lit \in NumericLiterals THEN <<55>> ELSE <<39, 98, 39>>

\* Every setting of -v and -n.
CleanFlags ==
  { [verbose |-> v, noclean |-> n, dirty |-> FALSE] : v \in BOOLEAN, n \in BOOLEAN }

ElideInit == CallInit(ElideInputs, CleanFlags)

\* cleanupQuery of the query with the literal and with the other literal in
\* its place.
ElideCall ==
  Return([lit |-> cleanupQuery(arg.pre \o arg.lit \o arg.post, verbose, noclean),
          alt |-> cleanupQuery(arg.pre \o OtherLiteral(arg.lit) \o arg.post,
                               verbose, noclean)])

SpecElide == ElideInit /\ [][ElideCall]_vars

\* ------------------------------------------------- queries with a list

\* The most literals in a list.
MaxList == 3

\* The literals "1", "22", "'foo'", '"a"' and "'\\'" (an escaped backslash).
ListLiterals ==
  { <<49>>, <<50, 50>>, <<39, 102, 111, 111, 39>>, <<34, 97, 34>>,
    <<39, 92, 92, 39>> }

\* A comma followed by a space, by two spaces and by a tab.
ListSeparators == { <<44, 32>>, <<44, 32, 32>>, <<44, 9>> }

\* A list is its first literal and the separators and literals after it.
ListInputs ==
  [first : ListLiterals,
   rest : SeqsUpTo(ListSeparators \X ListLiterals, MaxList - 1)]

\* The text of the separators and literals after the first.
RECURSIVE ListRest(_)
ListRest(rest) ==
  IF rest = <<>> THEN <<>>
  ELSE rest[1][1] \o rest[1][2] \o ListRest(Tail(rest))

\* "x in (" list ")".
ListQuery(a) ==
  <<120, 32, 105, 110, 32, 40>> \o a.first \o ListRest(a.rest) \o <<41>>

ListInit == CallInit(ListInputs, CleanFlags)

ListCall == Return(cleanupQuery(ListQuery(arg), verbose, noclean))

SpecList == ListInit /\ [][ListCall]_vars

\* ------------------------------------------------- queries of any shape

\* The most pieces a query is made of.
MaxPieces == 4

\* The pieces " ", tab, "a", "1", "'", backslash, ",", ", " and "?".
QueryPieces ==
  { <<32>>, <<9>>, <<97>>, <<49>>, <<39>>, <<92>>, <<44>>, <<44, 32>>, <<63>> }

\* Queries with a route comment: a first token, "/*", a host:route token, "*/"
\* and a rest, with white space between them.
RouteQueries ==
  { p \o w[1] \o <<47, 42>> \o w[2] \o x \o w[3] \o <<42, 47>> \o w[4] \o y :
      p \in { <<>>, <<97>>, <<39, 92, 92, 39>> },
      w \in [1 .. 4 -> { <<32>>, <<9>>, <<32, 32>> }],
      x \in { <<104>>, <<104, 58>>, <<104, 58, 114>>, <<104, 58, 114, 58, 115>>,
               <<49, 58, 50>> },
      y \in { <<>>, <<98>>, <<63, 44, 32, 99>> } }

CleanInputs ==
  { Join(t) : t \in SeqsUpTo(QueryPieces, MaxPieces) } \cup RouteQueries

\* With and without -v -n.
CanonFlags ==
  { [verbose |-> v, noclean |-> v, dirty |-> FALSE] : v \in BOOLEAN }

CleanInit == CallInit(CleanInputs, CanonFlags)

\* cleanupQuery of the query, and cleanupQuery of that.
CleanTwice(once) ==
  [once |-> once, twice |-> cleanupQuery(once, verbose, noclean)]

CleanCall == Return(CleanTwice(cleanupQuery(arg, verbose, noclean)))

SpecClean == CleanInit /\ [][CleanCall]_vars

\* ------------------------------------------------- a long conversation

\* The most exchanges of a request and its response.
MaxExchanges == 1001

\* The client 10.0.0.5:44321 sends the COM_QUERY "1" and the server answers it.
ExchangeRequest ==
  [srcIP |-> <<10, 0, 0, 5>>, srcPort |-> 44321, dstIP |-> Server.ip,
   dstPort |-> Server.port, data |-> <<2, 0, 0, 0, COM_QUERY, 49>>]
ExchangeResponse ==
  [srcIP |-> Server.ip, srcPort |-> Server.port, dstIP |-> <<10, 0, 0, 5>>,
   dstPort |-> 44321, data |-> <<1, 0, 0, 1, 0>>]

\* The client's request is unanswered.
Awaiting == ev.n > 0 /\ ev.request

\* The capture loop on a conversation of one client: a request at any time,
\* and its response within the clock tick of the request.
ExchangeStep ==
  LoopStepWith(IF Awaiting THEN {ExchangeResponse} ELSE {ExchangeRequest},
               2 * MaxExchanges,
               IF Awaiting THEN {0} ELSE 0 .. 1)

NextExchange == ParseFlags \/ ExchangeStep

SpecReport == Init /\ [][NextExchange]_vars

\* ------------------------------------------------- texts that start a quote

\* The longest text scanned.
MaxScan == 5

\* Texts over "'", '"', backslash and "a" that start with a quote.
ScanInputs ==
  { t \in SeqsUpTo({39, 34, 92, 97}, MaxScan) : Len(t) >= 1 /\ t[1] \in {39, 34} }

ScanInit == CallInit(ScanInputs, CanonFlags)

\* scanToken(arg), and the first string cleanupQuery's loop appends to qspace.
ScanCall ==
  Return([scan |-> scanToken(arg, verbose, noclean),
          first |-> Head(Tokens(arg, verbose, noclean))])

SpecScan == ScanInit /\ [][ScanCall]_vars

\* ------------------------------------------------- traffic of any endpoints

\* Two hosts, each with the MySQL port and another port: connections to the
\* MySQL port from either kind of port, in both directions.
FlowEndpoints ==
  { [ip |-> i, port |-> p] : i \in {<<10, 0, 0, 1>>, <<10, 0, 0, 5>>},
                             p \in {MYSQL_PORT, 44321} }

\* What the capture filter "tcp port <port>" delivers of their traffic: a
\* COM_QUERY "1" frame or no payload, between any two endpoints of which at
\* least one uses the MySQL port.
FlowPairs ==
  { pr \in FlowEndpoints \X FlowEndpoints :
      pr[1] # pr[2] /\ (pr[1].port = MYSQL_PORT \/ pr[2].port = MYSQL_PORT) }
FlowPackets ==
  { [srcIP |-> pr[1].ip, srcPort |-> pr[1].port, dstIP |-> pr[2].ip,
     dstPort |-> pr[2].port, data |-> d] :
      pr \in FlowPairs, d \in {<<>>, <<2, 0, 0, 0, 3, 49>>} }

\* The capture loop on the traffic of FlowPackets.
FlowStep == LoopStepOver(FlowPackets)

NextFlow == ParseFlags \/ FlowStep

SpecFlow == Init /\ [][NextFlow]_vars

Spec == Init /\ [][Next]_vars

\* ------------------------------------------------- properties of the loop

\* The last step handled a packet with a payload, from or to source k.
Handled(k) == ev'.n # ev.n /\ Len(ev'.pkt.data) > 0 /\ ev'.src = k

\* The sources a packet may belong to.
SourceKeys == { SourceString(c.ip, c.port) : c \in Clients }

\* The reservoir of source k (all zero before the source exists).
ReqTimesOf(k) == IF k \in DOMAIN chmap THEN chmap[k].reqTimes ELSE NoTimes

\* C1. Request/response pairing: when a response packet is handled on a synced
\* source whose reqSent is set, one slot r is drawn and the latency (the clock
\* minus reqSent) is written to slot r of the source's reservoir, of the global
\* reservoir and of the reservoir of the source's qdata, whose bytes grow by
\* the payload length; nothing else of any queryData changes (no count does),
\* and reqSent is nil afterwards.
C1_ResponsePairing ==
  [][\A k \in SourceKeys :
       (Handled(k) /\ ~ev'.request /\ IsSynced(k) /\ chmap[k].reqSent # <<>>) =>
         LET rs == chmap[k]
             r == ev'.randn
             latency == now' - rs.reqSent[1]
         IN
         /\ r \in Buckets
         /\ rs.qdata \in 1 .. Len(heap)
         /\ chmap'[k].reqTimes = [rs.reqTimes EXCEPT ![r] = latency]
         /\ times' = [times EXCEPT ![r] = latency]
         /\ heap' = [heap EXCEPT ![rs.qdata].times[r] = latency,
                                 ![rs.qdata].bytes = @ + Len(ev'.pkt.data)]
         /\ \A a \in 1 .. Len(heap) : heap'[a].count = heap[a].count
         /\ chmap'[k].reqSent = <<>>
         /\ chmap'[k].synced
         /\ qbuf' = qbuf /\ querycount' = querycount
    ]_vars

\* C1 witness: a source that synced on one COM_QUERY request and then got one
\* response: its queryData has count 1 and holds the latency in the drawn slot.
C1_Witness ==
  /\ ev.n = 2 /\ ~ev.request /\ ev.randn \in Buckets
  /\ querycount = 1
  /\ chmap[ev.src].synced /\ chmap[ev.src].reqSent = <<>>
  /\ heap[chmap[ev.src].qdata].count = 1
  /\ heap[chmap[ev.src].qdata].times[ev.randn] = 1
  /\ times[ev.randn] = 1
  /\ chmap[ev.src].reqTimes[ev.randn] = 1

\* C2. Synchronization gate: a packet handled on an unsynced source, other than
\* a request whose payload starts with a whole COM_QUERY frame, leaves the
\* source unsynced with empty buffers and nil reqSent, and changes no
\* queryData, no reservoir, no key, no request count and not desyncs.
C2_SyncGate ==
  [][\A k \in SourceKeys :
       (/\ Handled(k)
        /\ ~IsSynced(k)
        /\ ~(ev'.request /\ WholeFrame(ev'.pkt.data)
             /\ FrameCommand(ev'.pkt.data) = COM_QUERY)) =>
         /\ ~chmap'[k].synced
         /\ chmap'[k].reqbuffer = <<>> /\ chmap'[k].resbuffer = <<>>
         /\ chmap'[k].reqSent = <<>>
         /\ chmap'[k].reqTimes = ReqTimesOf(k)
         /\ heap' = heap /\ qbuf' = qbuf /\ times' = times
         /\ querycount' = querycount
         /\ stats'.desyncs = stats.desyncs
    ]_vars

\* C2 witness: the first packet of a source was a response and the source is
\* unsynced, with nothing recorded.
C2_Witness ==
  /\ ev.n = 1 /\ ~ev.request /\ Len(ev.pkt.data) > 0
  /\ ev.src \in DOMAIN chmap /\ ~chmap[ev.src].synced
  /\ heap = <<>> /\ stats.desyncs = 0

\* The queryData a key text stands for.
EntryOf(text) == heap[qbuf[text]]

\* The count of the queryData of key text before the step (0 when not yet made).
CountBefore(text) == IF text \in DOMAIN qbuf THEN EntryOf(text).count ELSE 0

\* C3. Two requests without a response: a whole request frame handled on a
\* source that has an unanswered request overwrites reqSent and still counts
\* (the count of its key's queryData goes up by one, no other count changes);
\* the next response packet then records one latency, measured from the last of
\* the unanswered requests and written to that request's queryData only.
C3_TwoRequests ==
  [][\A k \in SourceKeys :
       /\ (/\ Handled(k) /\ ev'.request /\ k \in DOMAIN pending
           /\ Len(pending'[k]) >= 2 /\ Len(pending'[k]) > Len(pending[k])) =>
            LET text == pending'[k][Len(pending'[k])].text IN
            /\ chmap'[k].reqSent = <<now'>>
            /\ chmap[k].reqSent = <<pending[k][Len(pending[k])].at>>
            /\ text \in DOMAIN qbuf'
            /\ heap'[qbuf'[text]].count = CountBefore(text) + 1
            /\ \A t \in DOMAIN qbuf : t # text => heap'[qbuf'[t]].count = EntryOf(t).count
       /\ (/\ Handled(k) /\ ~ev'.request /\ k \in DOMAIN pending
           /\ Len(pending[k]) >= 2) =>
            LET second == pending[k][Len(pending[k])]
                r == ev'.randn
            IN
            /\ r \in Buckets
            /\ heap'[qbuf[second.text]].times
                 = [EntryOf(second.text).times EXCEPT ![r] = now' - second.at]
            /\ times' = [times EXCEPT ![r] = now' - second.at]
            /\ \A t \in DOMAIN qbuf :
                 t # second.text => heap'[qbuf[t]].times = EntryOf(t).times
            /\ chmap'[k].reqSent = <<>>
    ]_vars

\* C3 witness: two requests with different keys at times 0 and 1, then a
\* response at time 2: only the second key's queryData holds a latency, of 1.
C3_Witness ==
  /\ ev.n = 3 /\ ~ev.request /\ ev.randn \in Buckets /\ now = 2
  /\ querycount = 2 /\ Len(heap) = 2
  /\ heap[1].count = 1 /\ heap[2].count = 1
  /\ heap[1].times = NoTimes
  /\ heap[2].times[ev.randn] = 1
  /\ chmap[ev.src].qdata = 2

\* ------------------------------------------------------- properties: flows

C5_CarveResult ==
  (pc = "return" /\ WholeFrame(arg)) =>
    LET L == FrameSize(arg) IN
    res = << arg[5],
             [i \in 1 .. (L - 1) |-> arg[5 + i]],
             [i \in 1 .. (Len(arg) - L - 4) |-> arg[L + 4 + i]] >>

\* C5 witness: a frame with L = 2 was carved off a buffer of seven bytes: its
\* command and its one payload byte were returned and one byte is left.
C5_Witness ==
  /\ pc = "return" /\ Len(arg) = 7
  /\ WholeFrame(arg) /\ FrameSize(arg) = 2
  /\ res = <<arg[5], <<arg[6]>>, <<arg[7]>>>>

\* C6. Frame carver incomplete case: with fewer than 5 bytes, or a length
\* field L of 0, or fewer than L + 4 bytes, carvePacket returns type -1 and no
\* payload, and the buffer is as it was.
C6_CarveIncomplete ==
  (/\ pc = "return"
   /\ \/ Len(arg) < 5
      \/ FrameSize(arg) = 0
      \/ Len(arg) < FrameSize(arg) + 4) =>
    res = <<-1, <<>>, arg>>

\* C6 witness: a buffer of five bytes or more whose length field is 0 was
\* refused and left alone.
C6_Witness ==
  /\ pc = "return" /\ Len(arg) >= 5 /\ FrameSize(arg) = 0
  /\ res[1] = -1 /\ res[3] = arg

\* ------------------------------------------------- properties: request keys

\* "a.b.c.d" and "a.b.c.d:port" of an endpoint.
IpText(ip) ==
  Decimal(ip[1]) \o <<46>> \o Decimal(ip[2]) \o <<46>> \o Decimal(ip[3])
  \o <<46>> \o Decimal(ip[4])
EndpointText(c) == IpText(c.ip) \o <<58>> \o Decimal(c.port)

\* The key the claim gives for format string f, read left to right: "##" is a
\* '#', '#' and a letter of "siqr" (in either case when fold) is that item, '#'
\* and another byte x is "#x", a '#' that ends f is nothing, and any other byte
\* is itself.
RECURSIVE KeyByFormat(_, _, _, _, _)
KeyByFormat(f, c, q, cfg, fold) ==
  IF f = <<>> THEN <<>>
  ELSE IF f[1] # 35 THEN <<f[1]>> \o KeyByFormat(Tail(f), c, q, cfg, fold)
  ELSE IF Len(f) = 1 THEN <<>>
  ELSE
    LET x == IF fold THEN ToLower(f[2]) ELSE f[2] IN
    (IF x = 35 THEN <<35>>
     ELSE IF x = 115 THEN EndpointText(c)
     ELSE IF x = 105 THEN IpText(c.ip)
     ELSE IF x = 113 THEN
       IF cfg.dirty THEN q ELSE cleanupQuery(q, cfg.verbose, cfg.noclean)
     ELSE IF x = 114 THEN RouteText(q, cfg.verbose, cfg.noclean)
     ELSE <<35, f[2]>>)
    \o KeyByFormat(SubSeq(f, 3, Len(f)), c, q, cfg, fold)

\* The same for -f formatstr as main takes it: white space around it is
\* dropped, and an empty string stands for "#b:#k".
KeyAsAmended(formatstr, c, q, cfg) ==
  KeyByFormat(IF TrimSpace(formatstr) = <<>> THEN <<35, 98, 58, 35, 107>>
              ELSE TrimSpace(formatstr), c, q, cfg, TRUE)

\* C7 as stated: the key is the format string's text with the items #s, #i,
\* #q (and #r) filled in, "##" a '#', and '#' before any other byte x "#x".
C7_KeyAsStated ==
  pc = "return" =>
    /\ res.first.rs.qtext = KeyByFormat(arg.formatstr, arg.c1, arg.q1, Config, FALSE)
    /\ res.second.rs.qtext = KeyByFormat(arg.formatstr, arg.c2, arg.q2, Config, FALSE)

\* C7, amended. The format string is first stripped of surrounding white space
\* (an empty one being replaced by "#b:#k"); the key is then the concatenation
\* in order of its literal text and items, where #s is "ip:port", #i the IP,
\* #q the canonicalized payload (the raw one under -u), #r the route, each also
\* with the capital letter, "##" a '#', '#' before any other byte x "#x", and
\* a '#' that ends the string nothing.  Two requests with equal keys update one
\* queryData, two with different keys one each.
C7_KeyAssembly ==
  pc = "return" =>
    LET k1 == KeyAsAmended(arg.formatstr, arg.c1, arg.q1, Config)
        k2 == KeyAsAmended(arg.formatstr, arg.c2, arg.q2, Config)
        g == res.second.g
        a1 == res.first.rs.qdata
        a2 == res.second.rs.qdata
    IN
    /\ res.first.rs.qtext = k1
    /\ res.second.rs.qtext = k2
    /\ DOMAIN g.qbuf = {k1, k2}
    /\ g.qbuf[k1] = a1 /\ g.qbuf[k2] = a2
    /\ (k1 = k2) <=> (a1 = a2)
    /\ g.heap[a1].count = (IF k1 = k2 THEN 2 ELSE 1)
    /\ g.heap[a2].count = (IF k1 = k2 THEN 2 ELSE 1)
    /\ Len(g.heap) = (IF k1 = k2 THEN 1 ELSE 2)

\* C7 witness: -f "#i #q" and the query "SELECT * FROM t WHERE id=42" from
\* 10.0.0.5:44321 gave the key "10.0.0.5 SELECT * FROM t WHERE id=?".
C7_Witness ==
  /\ pc = "return" /\ arg = ExampleKeyInput /\ ~dirty /\ ~verbose
  /\ res.first.rs.qtext =
       <<49, 48, 46, 48, 46, 48, 46, 53, 32, 83, 69, 76, 69, 67, 84, 32, 42, 32,
         70, 82, 79, 77, 32, 116, 32, 87, 72, 69, 82, 69, 32, 105, 100, 61, 63>>
  /\ res.second.g.heap[1].count = 2

\* ------------------------------------------------- properties: route item

\* Every token of s between single spaces.
SpaceTokens(s) == SplitN(s, 32, Len(s) + 1)

\* The text of token after its first ':', the whole token when it has none.
RouteOf(token) ==
  IF \E i \in 1 .. Len(token) : token[i] = 58
  THEN LET i == CHOOSE i \in 1 .. Len(token) :
                  token[i] = 58 /\ \A j \in 1 .. i - 1 : token[j] # 58
       IN SubSeq(token, i + 1, Len(token))
  ELSE token

\* The payload has a route comment: its second token is "/*" and its fourth
\* is "*/".
HasRouteComment(s) ==
  /\ Len(SpaceTokens(s)) >= 4
  /\ SpaceTokens(s)[2] = <<47, 42>>
  /\ SpaceTokens(s)[4] = <<42, 47>>

\* C8. With format "#r" the key of a request is, when the payload split on
\* single spaces has "/*" as second token and "*/" as fourth, the text after
\* the first ':' of the third token (the whole token when it has no ':'), and
\* otherwise "(unknown) " followed by the canonicalized query.
C8_RouteItem ==
  pc = "return" =>
    res.rs.qtext =
      IF HasRouteComment(arg) THEN RouteOf(SpaceTokens(arg)[3])
      ELSE <<40, 117, 110, 107, 110, 111, 119, 110, 41, 32>>
           \o cleanupQuery(arg, verbose, noclean)

\* C8 witness: the payload "SELECT /* web01:user_lookup */ * FROM u WHERE
\* id=1" gave the key "user_lookup".
C8_Witness ==
  /\ pc = "return" /\ arg = ExampleRoutePayload
  /\ res.rs.qtext = <<117, 115, 101, 114, 95, 108, 111, 111, 107, 117, 112>>
  /\ res.g.heap[res.rs.qdata].count = 1

\* ------------------------------------------------- properties: literals

\* The quoted literal ends in backslashes that escape each other, so that its
\* closing quote is not escaped.
EndsInBackslashPair(lit) ==
  /\ Len(lit) >= 4
  /\ lit[Len(lit) - 1] = 92
  /\ lit[Len(lit) - 2] = 92
  /\ IsQuotedText(SubSeq(lit, 2, Len(lit) - 3), lit[1])

\* C9, for the runs that canonicalize (not -v -n). A query and the query with
\* one numeric or string literal replaced by another literal of its class
\* have the same canonical form.
C9_LiteralElision ==
  (pc = "return" /\ ~(verbose /\ noclean)) => res.lit = res.alt

\* C9 holds of the literals whose closing quote does not follow backslashes
\* that escape each other.
C9_ElisionButBackslashPair ==
  (pc = "return" /\ ~(verbose /\ noclean) /\ ~EndsInBackslashPair(arg.lit))
    => res.lit = res.alt

\* The query "a='\\' b=1" came out as "a=?", and "a='b' b=1" as "a=? b=?".
C9_BackslashPairSeen ==
  /\ pc = "return" /\ ~verbose
  /\ arg = [pre |-> <<97, 61>>, lit |-> <<39, 92, 92, 39>>,
            post |-> <<32, 98, 61, 49>>]
  /\ res.lit = <<97, 61, 63>>
  /\ res.alt = <<97, 61, 63, 32, 98, 61, 63>>

\* C10, for the runs that canonicalize (not -v -n). "x in (" and a list of
\* one or more numeric or quoted literals separated by a comma and white
\* space and ")" canonicalizes to "x in (?)".
C10_ListCollapse ==
  (pc = "return" /\ ~(verbose /\ noclean)) =>
    res = <<120, 32, 105, 110, 32, 40, 63, 41>>

\* The list has the literal "'\\'".
HasBackslashPair(a) ==
  \/ a.first = <<39, 92, 92, 39>>
  \/ \E i \in 1 .. Len(a.rest) : a.rest[i][2] = <<39, 92, 92, 39>>

\* C10 holds of the lists without the literal "'\\'".
C10_CollapseButBackslashPair ==
  (pc = "return" /\ ~(verbose /\ noclean) /\ ~HasBackslashPair(arg)) =>
    res = <<120, 32, 105, 110, 32, 40, 63, 41>>

\* The query "x in ('\\', 1)" came out as "x in (?".
C10_BackslashPairSeen ==
  /\ pc = "return" /\ ~verbose
  /\ arg = [first |-> <<39, 92, 92, 39>>, rest |-> << <<(<<44, 32>>), (<<49>>)>> >>]
  /\ res = <<120, 32, 105, 110, 32, 40, 63>>

\* ------------------------------------------------- properties: white space

IsWhitespace(b) == b = 32 \/ (b >= 9 /\ b <= 13)

\* The number of maximal runs of whitespace bytes in s.
WhitespaceRuns(s) ==
  Cardinality({ i \in 1 .. Len(s) :
                  IsWhitespace(s[i]) /\ (i = 1 \/ ~IsWhitespace(s[i - 1])) })

\* The number of bytes b in s.
CountByte(s, b) == Cardinality({ i \in 1 .. Len(s) : s[i] = b })

\* No whitespace byte of s but the space.
OnlySpaces(s) == \A i \in 1 .. Len(s) : IsWhitespace(s[i]) => s[i] = 32

\* C11 as stated: the canonical form of every query has no whitespace byte
\* other than the space and no two adjacent spaces.
C11_NoAdjacentSpaces ==
  (pc = "return" /\ ~(verbose /\ noclean)) =>
    /\ OnlySpaces(res.once)
    /\ \A i \in 1 .. Len(res.once) - 1 : ~(res.once[i] = 32 /\ res.once[i + 1] = 32)

\* C11 holds but for the two spaces between the "/*" and "*/" of a route
\* comment whose token ends at its first ':'; and a query without quotes and
\* commas has as many spaces in its canonical form as it has runs of
\* whitespace bytes.
C11_CollapseButEmptyRoute ==
  (pc = "return" /\ ~(verbose /\ noclean)) =>
    /\ OnlySpaces(res.once)
    /\ \A i \in 1 .. Len(res.once) - 1 :
         (res.once[i] = 32 /\ res.once[i + 1] = 32) =>
           /\ i >= 3 /\ i + 3 <= Len(res.once)
           /\ SubSeq(res.once, i - 2, i + 3) = <<47, 42, 32, 32, 42, 47>>
    /\ (CountByte(arg, 39) = 0 /\ CountByte(arg, 34) = 0 /\ CountByte(arg, 44) = 0)
         => CountByte(res.once, 32) = WhitespaceRuns(arg)

\* The query "a /* h: */ b" came out as "a /*  */ b".
C11_EmptyRouteSeen ==
  /\ pc = "return" /\ ~verbose
  /\ arg = <<97, 32, 47, 42, 32, 104, 58, 32, 42, 47, 32, 98>>
  /\ res.once = <<97, 32, 47, 42, 32, 32, 42, 47, 32, 98>>

\* ------------------------------------------------- properties: idempotence

\* C12, for the runs that canonicalize (not -v -n). The canonical form of a
\* query is its own canonical form.
C12_Idempotence ==
  (pc = "return" /\ ~(verbose /\ noclean)) => res.twice = res.once

\* The canonical form has a route comment: "/*" as second token and "*/" as
\* fourth.
HasRoute(s) ==
  /\ Len(SplitN(s, 32, 5)) >= 5
  /\ SplitN(s, 32, 5)[2] = <<47, 42>>
  /\ SplitN(s, 32, 5)[4] = <<42, 47>>

\* s has the text "?, ".
HasListMark(s) ==
  \E i \in 1 .. Len(s) - 2 : SubSeq(s, i, i + 2) = <<63, 44, 32>>

\* C12 holds of the canonical forms that have no "?, " left, no two adjacent
\* spaces and no route comment.
C12_IdempotentButRewrites ==
  (/\ pc = "return" /\ ~(verbose /\ noclean)
   /\ ~HasListMark(res.once)
   /\ ~HasRoute(res.once)
   /\ \A i \in 1 .. Len(res.once) - 1 : ~(res.once[i] = 32 /\ res.once[i + 1] = 32))
    => res.twice = res.once

\* The query "a /* h:r:s */ b" came out as "a /* r:s */ b", and that as
\* "a /* s */ b".
C12_RouteSeen ==
  /\ pc = "return" /\ ~verbose
  /\ arg = <<97, 32, 47, 42, 32, 104, 58, 114, 58, 115, 32, 42, 47, 32, 98>>
  /\ res.once = <<97, 32, 47, 42, 32, 114, 58, 115, 32, 42, 47, 32, 98>>
  /\ res.twice = <<97, 32, 47, 42, 32, 115, 32, 42, 47, 32, 98>>

\* The query "??, , " came out as "?, ", and that as "".
C12_ListMarkSeen ==
  /\ pc = "return" /\ ~verbose
  /\ arg = <<63, 63, 44, 32, 44, 32>>
  /\ res.once = <<63, 44, 32>>
  /\ res.twice = <<>>

\* ------------------------------------------------- properties: reports

\* C13. After each packet a status report is run (last is set to the clock)
\* exactly when -v is not set, the number of requests processed is then a
\* multiple of 1000 and more than Period seconds have passed since the last
\* report (since the start for the first one). A packet raises the number of
\* requests by at most one, two reports are more than Period seconds apart,
\* and with -v no report is run.
C13_ReportCadence ==
  [][ev'.n = ev.n + 1 =>
       /\ (last' # last) <=>
            (~verbose /\ querycount' % 1000 = 0 /\ now' - last > Period)
       /\ last' # last => (last' = now' /\ last' - last > Period)
       /\ querycount' \in {querycount, querycount + 1}
       /\ verbose => last' = last
    ]_vars

\* C13 witness: the report that follows the 1000th request, the clock two
\* ticks after the start.
C13_Witness ==
  /\ pc = "loop" /\ ~verbose
  /\ querycount = 1000 /\ ev.request /\ ev.n = 1999
  /\ now = 2 /\ last = 2

\* ------------------------------------------------- properties: sources

\* C14. After every packet, a source whose reqSent is set is synced, has a
\* queryData, and that queryData is the one qbuf holds under the source's
\* qtext.
C14_ReqSentHasEntry ==
  \A k \in DOMAIN chmap :
    chmap[k].reqSent # <<>> =>
      /\ chmap[k].synced
      /\ chmap[k].qdata # 0
      /\ chmap[k].qdata \in DOMAIN heap
      /\ chmap[k].qtext \in DOMAIN qbuf
      /\ qbuf[chmap[k].qtext] = chmap[k].qdata

\* C14 witness: a source with an unanswered request whose queryData is not the
\* first one made, after an earlier request of another key.
C14_Witness ==
  \E k \in DOMAIN chmap :
    /\ chmap[k].reqSent # <<>>
    /\ chmap[k].qdata = 2
    /\ heap[1].count = 1 /\ heap[2].count = 1
    /\ k \in DOMAIN pending /\ Len(pending[k]) = 2

\* ------------------------------------------------- properties: desyncs

\* Source k has an unanswered request and the last step handled another
\* request of it.
SecondRequestOf(k) ==
  /\ Handled(k) /\ ev'.request
  /\ k \in DOMAIN pending /\ Len(pending[k]) >= 1

\* C15 as stated: the second of two requests without a response between them
\* increments desyncs.
C15_DesyncOnSecondRequest ==
  [][\A k \in SourceKeys :
       SecondRequestOf(k) => stats'.desyncs = stats.desyncs + 1
    ]_vars

\* C15, amended. The second of two requests without a response between them
\* does not change desyncs: resbuffer is empty when it arrives, so the source
\* stays synced; the request is carved and, when it holds a whole frame, it is
\* counted and its time replaces reqSent.
C15_NoDesyncOnSecondRequest ==
  [][\A k \in SourceKeys :
       SecondRequestOf(k) =>
         /\ chmap[k].resbuffer = <<>>
         /\ stats'.desyncs = stats.desyncs
         /\ chmap[k].synced /\ chmap'[k].synced
         /\ chmap'[k].resbuffer = <<>>
         /\ stats'.rcvd_sync = stats.rcvd_sync + 1
         /\ WholeFrame(ev'.pkt.data) =>
              /\ querycount' = querycount + 1
              /\ chmap'[k].reqSent = <<now'>>
         /\ ~WholeFrame(ev'.pkt.data) =>
              /\ querycount' = querycount
              /\ chmap'[k].reqSent = chmap[k].reqSent
    ]_vars

\* C15 witness: a source sent two whole requests and no response came; it is
\* synced and no desync was counted.
C15_Witness ==
  \E k \in DOMAIN chmap :
    /\ ev.src = k /\ ev.request /\ ev.n = 2
    /\ k \in DOMAIN pending /\ Len(pending[k]) = 2
    /\ chmap[k].synced /\ stats.desyncs = 0 /\ querycount = 2

\* ------------------------------------------------- properties: commands

\* Source k is synced with no unanswered request and the last step handled a
\* request of it.
RequestWhenIdle(k) ==
  /\ Handled(k) /\ ev'.request
  /\ IsSynced(k) /\ chmap[k].reqSent = <<>>

\* C16 as stated: a synced source without an unanswered request gets reqSent
\* set, a queryData counted and querycount raised only by a request whose
\* frame has the command COM_QUERY.
C16_OnlyComQueryCounted ==
  [][\A k \in SourceKeys :
       (/\ RequestWhenIdle(k)
        /\ \/ chmap'[k].reqSent # <<>>
           \/ querycount' # querycount
           \/ heap' # heap) =>
         (WholeFrame(ev'.pkt.data) /\ FrameCommand(ev'.pkt.data) = COM_QUERY)
    ]_vars

\* What holds instead: on a synced source every request that starts with a
\* whole frame is counted, whatever its command, and no other request is.
C16_WholeFramesCounted ==
  [][\A k \in SourceKeys :
       RequestWhenIdle(k) =>
         IF WholeFrame(ev'.pkt.data)
         THEN /\ chmap'[k].reqSent = <<now'>>
              /\ querycount' = querycount + 1
              /\ heap'[chmap'[k].qdata].count =
                   CountBefore(chmap'[k].qtext) + 1
         ELSE /\ chmap'[k].reqSent = <<>>
              /\ querycount' = querycount
              /\ heap' = heap
    ]_vars

\* A COM_PING request (command 14) was counted on a synced source whose
\* earlier request had been answered.
C16_PingCounted ==
  /\ ev.n = 3 /\ ev.request /\ ev.pkt.data = <<1, 0, 0, 0, 14>>
  /\ querycount = 2
  /\ chmap[ev.src].reqSent = <<now>>
  /\ Len(pending[ev.src]) = 1

\* ------------------------------------------------- properties: skipped packets

\* The last step handled a packet without payload.
HandledEmpty == ev'.n # ev.n /\ Len(ev'.pkt.data) = 0

\* The last step handled a request of source k whose payload is shorter than
\* a frame header and its command, or has the length field 0.
HandledFragment(k) ==
  /\ Handled(k) /\ ev'.request
  /\ \/ Len(ev'.pkt.data) < 5
     \/ FrameSize(ev'.pkt.data) = 0

\* The record of source k before the step: a new one when k was unknown.
SourceBefore(k) == IF k \in DOMAIN chmap THEN chmap[k] ELSE NewSource(k)

\* C17 as stated: such packets leave the sources, every queryData and the
\* reservoirs as they were.
C17_SkipChangesNothing ==
  [][(HandledEmpty \/ \E k \in SourceKeys : HandledFragment(k)) =>
       /\ chmap' = chmap
       /\ heap' = heap /\ qbuf' = qbuf /\ times' = times
    ]_vars

\* C17, amended. A packet without payload changes nothing: no source, no
\* queryData, no reservoir, no counter. A request shorter than 5 bytes or with
\* length field 0 is counted in stats.rcvd (and rcvd_sync on a synced source),
\* makes the record of a source not seen before (unsynced, streams counted),
\* and leaves its payload in reqbuffer when the source is synced; synced,
\* resbuffer, reqSent, qtext, qdata, the source's reservoir, every other
\* source, every queryData, the global reservoir, querycount and desyncs stay
\* as they were.
C17_SilentSkip ==
  [][/\ HandledEmpty =>
          /\ chmap' = chmap /\ heap' = heap /\ qbuf' = qbuf /\ times' = times
          /\ querycount' = querycount /\ stats' = stats
     /\ \A k \in SourceKeys :
          HandledFragment(k) =>
            /\ DOMAIN chmap' = DOMAIN chmap \cup {k}
            /\ \A j \in DOMAIN chmap : j # k => chmap'[j] = chmap[j]
            /\ chmap'[k] =
                 [SourceBefore(k) EXCEPT
                    !.reqbuffer = IF SourceBefore(k).synced THEN ev'.pkt.data
                                  ELSE <<>>]
            /\ heap' = heap /\ qbuf' = qbuf /\ times' = times
            /\ querycount' = querycount
            /\ stats' =
                 [stats EXCEPT
                    !.rcvd = @ + 1,
                    !.rcvd_sync = IF IsSynced(k) THEN @ + 1 ELSE @,
                    !.streams = IF k \in DOMAIN chmap THEN @ ELSE @ + 1]
    ]_vars

\* C17 witness: a synced source with an unanswered request got a request of
\* three bytes; it kept reqSent and its queryData, and reqbuffer holds the
\* three bytes.
C17_Witness ==
  /\ ev.n = 2 /\ ev.request /\ ev.pkt.data = <<7, 0, 0>>
  /\ ev.src \in DOMAIN chmap
  /\ chmap[ev.src].synced /\ chmap[ev.src].reqSent # <<>>
  /\ chmap[ev.src].reqbuffer = <<7, 0, 0>>
  /\ querycount = 1 /\ heap[chmap[ev.src].qdata].count = 1

\* ------------------------------------------------- properties: late responses

\* The last step handled a response of the synced source k, which had no
\* unanswered request and has a queryData.
LateResponse(k) ==
  /\ Handled(k) /\ ~ev'.request
  /\ IsSynced(k) /\ chmap[k].reqSent = <<>> /\ chmap[k].qdata # 0

\* C18. A response of a synced source whose reqSent is unset and whose qdata
\* is set adds its payload length to the bytes of that queryData, and changes
\* nothing else of any source, queryData or reservoir: no slot is drawn, no
\* count changes, reqSent stays unset and the source synced.
C18_LateResponseBytes ==
  [][\A k \in SourceKeys :
       LateResponse(k) =>
         /\ heap' = [heap EXCEPT ![chmap[k].qdata].bytes = @ + Len(ev'.pkt.data)]
         /\ chmap' = chmap
         /\ qbuf' = qbuf /\ times' = times /\ querycount' = querycount
         /\ ev'.randn = -1
         /\ chmap'[k].reqSent = <<>> /\ chmap'[k].synced
         /\ stats'.desyncs = stats.desyncs
    ]_vars

\* C18 witness: a request at time 0, a response at time 1 and another at time
\* 2: one slot holds the latency 1, and the bytes of the queryData are those
\* of the request and of both responses.
C18_Witness ==
  /\ ev.n = 3 /\ ~ev.request /\ ev.randn = -1 /\ now = 2
  /\ ev.pkt.data = <<2, 0, 0, 1, 3, 49>>
  /\ querycount = 1 /\ Len(heap) = 1
  /\ heap[1].count = 1
  /\ heap[1].bytes = 1 + 1 + 6
  /\ \E r \in Buckets :
       /\ heap[1].times[r] = 1
       /\ \A j \in Buckets : j # r => heap[1].times[j] = 0

\* ------------------------------------------------- properties: quotes

\* Where a quote that starts with q ends, looking from position i on: at the
\* first q that is not escaped, a backslash escaping exactly the byte after
\* it; at the end of the text when there is none.
RECURSIVE QuoteEnd(_, _, _)
QuoteEnd(s, q, i) ==
  IF i > Len(s) THEN Len(s)
  ELSE IF s[i] = 92 THEN QuoteEnd(s, q, i + 2)
  ELSE IF s[i] = q THEN i
  ELSE QuoteEnd(s, q, i + 1)

\* C19, for the runs that canonicalize (not -v -n). The token of a text that
\* starts with ' or " is a QUOTE that ends at the first unescaped occurrence
\* of the same quote, or at the end of the text, and is emitted as "?".
C19_QuoteTermination ==
  (pc = "return" /\ ~(verbose /\ noclean)) =>
    /\ res.scan = <<QuoteEnd(arg, arg[1], 2), TOKEN_QUOTE>>
    /\ res.first = <<63>>

\* The number of backslashes in a row that end just before position i.
RECURSIVE BackslashesBefore(_, _)
BackslashesBefore(s, i) ==
  IF i > 1 /\ s[i - 1] = 92 THEN 1 + BackslashesBefore(s, i - 1) ELSE 0

\* No quote q of s follows backslashes that escape each other.
NoQuoteAfterBackslashPair(s, q) ==
  \A i \in 2 .. Len(s) :
    s[i] = q => (BackslashesBefore(s, i) = 0 \/ BackslashesBefore(s, i) % 2 = 1)

\* C19 holds of the texts in which no quote of the starting kind follows
\* backslashes that escape each other.
C19_TerminationButBackslashPair ==
  (pc = "return" /\ ~(verbose /\ noclean) /\ NoQuoteAfterBackslashPair(arg, arg[1])) =>
    /\ res.scan = <<QuoteEnd(arg, arg[1], 2), TOKEN_QUOTE>>
    /\ res.first = <<63>>

\* The token of "'\\'a" came out five bytes long, not four.
C19_BackslashPairSeen ==
  /\ pc = "return" /\ ~verbose
  /\ arg = <<39, 92, 92, 39, 97>>
  /\ res.scan = <<5, TOKEN_QUOTE>>

\* ------------------------------------------------- properties: resbuffer

\* C20. After every packet the resbuffer of every source is empty and desyncs
\* is 0, and a source that was synced is synced still.
C20_ResBufferEmpty ==
  [][/\ \A k \in DOMAIN chmap' : chmap'[k].resbuffer = <<>>
     /\ stats'.desyncs = 0
     /\ \A k \in DOMAIN chmap : chmap[k].synced => chmap'[k].synced
    ]_vars

\* C20 witness: a source sent a request, got a response and sent a request
\* that is no whole frame; it is synced and no desync was counted.
C20_Witness ==
  /\ ev.n = 3 /\ ev.request /\ ev.pkt.data = <<0, 0, 0, 0, 3>>
  /\ ev.src \in DOMAIN chmap /\ chmap[ev.src].synced
  /\ chmap[ev.src].resbuffer = <<>>
  /\ Len(pending[ev.src]) = 0 /\ querycount = 1
  /\ stats.desyncs = 0 /\ stats.rcvd_sync = 2

\* ------------------------------------------------- properties: counts

\* The sum of the counts of the first n queryData made.
RECURSIVE SumCount(_, _)
SumCount(h, n) == IF n = 0 THEN 0 ELSE h[n].count + SumCount(h, n - 1)

\* C21. After any packets of any sources, qbuf holds every queryData made
\* under one key each, querycount is the sum of their counts, and each count
\* is at least 1.
C21_CountsAddUp ==
  /\ \A t \in DOMAIN qbuf : qbuf[t] \in 1 .. Len(heap)
  /\ \A a \in 1 .. Len(heap) : \E t \in DOMAIN qbuf : qbuf[t] = a
  /\ \A t, u \in DOMAIN qbuf : qbuf[t] = qbuf[u] => t = u
  /\ querycount = SumCount(heap, Len(heap))
  /\ \A t \in DOMAIN qbuf : heap[qbuf[t]].count >= 1

\* C21 witness: three requests of two sources were counted under two keys,
\* two under one and one under the other.
C21_Witness ==
  /\ ev.n = 3 /\ querycount = 3
  /\ Cardinality(DOMAIN chmap) = 2
  /\ Cardinality(DOMAIN qbuf) = 2 /\ Len(heap) = 2
  /\ heap[1].count = 2 /\ heap[2].count = 1

====
